---- MODULE Spec2Model ----
(***************************************************************************)
(* rtop: the metric histories of the monitors, the refresh scheduling of   *)
(* App::update, the main loop of run_app and the graph renderer.           *)
(*                                                                         *)
(* The repository holds two versions of the application: src/src/ui.rs     *)
(* (build "src": one timestamp, last_update, for every category) and       *)
(* dev/bench/src/ui.rs (build "bench": one timestamp per category).  Both  *)
(* are modelled; the variable build says which one is running.             *)
(*                                                                         *)
(* Time is in milliseconds.  now is the wall clock as read at the last     *)
(* call of App::update; App construction happens at time 0 (the Instant    *)
(* fields of App::new are read within the same millisecond).               *)
(*                                                                         *)
(* The monitors whose state no property reads (ping, system, battery,      *)
(* diskio, npu, disk, process) appear through their invocation in calls.   *)
(* A machine with a GPU is one with NVIDIA cards, read through nvidia-smi. *)
(***************************************************************************)
EXTENDS Integers, Sequences, FiniteSets, TLC

VARIABLES
    build,                \* "src" | "bench": which ui.rs is running
    config,               \* Config.refresh_rates: [cpu, disk, process] in ms
    gpu_enabled,          \* GpuMonitor.enabled
    npu_enabled,          \* NpuMonitor.enabled (bench only)
    now,                  \* the clock
    last_update,          \* App.last_update
    last_disk_update,     \* App.last_disk_update (bench only)
    last_process_update,  \* App.last_process_update (bench only)
    paused,               \* App.paused
    show_help,            \* App.show_help
    pc,                   \* position of run_app in its loop
    key,                  \* the event read by the last handle_input
    calls,                \* monitor updates invoked by the last App::update, in order
    cpu_monitor,          \* CpuMonitor: [history: one deque per core]
    memory_monitor,       \* MemoryMonitor: [mem_history, swap_history]
    network_monitor,      \* NetworkMonitor: [rx_history, tx_history, total_*, last_*]
    gpu_monitor,          \* GpuMonitor: [gpus, utilization_history, memory_history]
    temp_monitor,         \* TempMonitor: [history, has_temps]
    gpu_output,           \* history variable: what nvidia-smi gave the last App::update
    last_failed,          \* history variable: the time of the last failed GPU update
    renderer,             \* a GraphRenderer: [width, height, symbol, inverted, no_zero]
    rendered,             \* the last call of render: its data, its rows, its cells
    meter,                \* a MeterRenderer: [width]
    metered,              \* the last call of a MeterRenderer method
    process_monitor,      \* ProcessMonitor: system (the processes), sort_order, reverse
    process_filter,       \* App.process_filter, a sequence of characters
    process_scroll,       \* App.process_scroll
    process_selected,     \* App.process_selected: <<>> (None) or <<index>> (Some(index))
    show_kill_confirm,    \* App.show_kill_confirm
    current_page,         \* App.current_page
    kill_sent,            \* history variable: <<pid>> if the last handle_input sent a kill
    selected_pid,         \* history variable: the pid at the index last selected, or 0
    running,              \* the AtomicBool shared with the ctrlc handler
    signal_at,            \* history variable: where the loop was at the first interrupt
    trace,                \* history variable: the steps of the current iteration
    pushed,               \* history variable: per channel, the samples pushed so far
    last_fired,           \* history variable: per category, the time of its last fire
    fire_count,           \* history variable: per category, the number of fires
    tick_log,             \* history variable: the clock readings of the first ticks
    resumed               \* history variable: the last handle_input lifted the pause

vars == <<build, config, gpu_enabled, npu_enabled, now, last_update,
          last_disk_update, last_process_update, paused, show_help, pc, key,
          calls, cpu_monitor, memory_monitor, network_monitor, gpu_monitor,
          temp_monitor, gpu_output, last_failed, renderer, rendered, meter,
          metered, process_monitor, process_filter, process_scroll,
          process_selected, show_kill_confirm, current_page, kill_sent,
          selected_pid, running, signal_at, trace, pushed, last_fired,
          fire_count, tick_log, resumed>>

\* the fields of the App that belong to the process list, and their history
list_vars ==
    <<process_filter, process_scroll, process_selected, show_kill_confirm,
      current_page, kill_sent, selected_pid>>

\* the flag of the ctrlc handler and its history
signal_vars == <<running, signal_at>>

----------------------------------------------------------------------------
(* Program constants *)

HISTORY_SIZE == 61
GPU_HISTORY_SIZE == 60     \* HISTORY_SIZE of monitor/gpu.rs
TEMP_HISTORY_SIZE == 61    \* the literal 61 of monitor/temp.rs
MIN_FIELDS == 9            \* fields of one line of nvidia-smi output

default_cpu_refresh == 1000
default_disk_refresh == 2000
default_process_refresh == 2000

minimal_cpu_refresh == 2000
minimal_disk_refresh == 5000

custom_process_refresh == 3000   \* the process cadence of a user configuration

(* Bounds of the model *)

NumCores == 2          \* cores of the machine
NumReadings == 2       \* distinct states of the operating system counters
NumGpus == 2           \* NVIDIA cards of a machine that has a GPU
NumSensors == 1        \* temperature sensors of the machine
FaultRun == 3          \* fast cadences in a run with failing GPU updates
MaxWidth == 3          \* widest graph
MaxHeight == 3         \* tallest graph
MaxLen == 3            \* longest series of arbitrary samples
MaxLong == 10          \* longest series
MaxMeterWidth == 10    \* widest meter
LoopDuration == 2200   \* the --duration of a run of the loop
NumProcesses == 23     \* processes of a busy system
NumFew == 2            \* processes of an idle system
MaxFilter == 1         \* longest filter typed
Epoch == 2000          \* the clock is moved back by this much
ExportJitter == 2      \* most milliseconds a step of the export is late by

VISIBLE == 20          \* rows of the process list
PAGE == 10             \* rows of a PageUp or a PageDown
FIRST_ROW == 4         \* terminal row of the first process of the list
MAX_FILTER == 30       \* most characters of the filter
PollTimeout == 50      \* event::poll(Duration::from_millis(50))
EXPORT_SLEEP == 500    \* the sleep of export_and_exit
MaxTime == 3300        \* the clock stops advancing past this time
MaxTicks == 5          \* length of a logged run of ticks
HistoryRun == 64       \* number of updates in a run of the monitors alone

----------------------------------------------------------------------------
(* The operating system, as read through sysinfo: what the monitors sample   *)
(* when the environment is in state os.                                      *)

CpuUsage(os, core) == (os * 7 + core * 3) % 101
UsedMemory(os) == (os * 5) % 101
TotalMemory == 100
UsedSwap(os) == (os * 3) % 51
TotalSwap(os) == IF os % 2 = 0 THEN 0 ELSE 50
TotalReceived(os) == (os * (os + 1)) \div 2
TotalTransmitted(os) == os * os

\* sysinfo Component::temperature, in degrees; 0 when the sensor gives no value
Temperature(os, sensor) == IF os % 3 = 0 THEN 0 ELSE 30 + 6 * os + 12 * sensor

\* one line of nvidia-smi output for card idx, as the fields update_nvidia parses
GpuLine(os, idx) ==
    [fields |-> MIN_FIELDS, utilization |-> (os * 11 + idx) % 101,
     memory_used |-> (os + idx) % 5, memory_total |-> 4]

\* a line cut short, e.g. by a driver error message
ShortLine ==
    [fields |-> MIN_FIELDS - 1, utilization |-> 0, memory_used |-> 0,
     memory_total |-> 0]

\* Command::output() of nvidia-smi: the command did not start (spawn_error),
\* exited with a failure status (exit_failure), or printed one line per card
NvidiaSmiOk(os) ==
    [result |-> "success", lines |-> [i \in 1..NumGpus |-> GpuLine(os, i)]]

NvidiaSmi(os, faults) ==
    IF faults
    THEN {[result |-> r, lines |-> <<>>] : r \in {"spawn_error", "exit_failure"}}
         \cup {[result |-> "success",
                lines |-> [i \in 1..NumGpus |->
                             IF i \in short THEN ShortLine ELSE GpuLine(os, i)]] :
               short \in SUBSET (1..NumGpus)}
    ELSE {NvidiaSmiOk(os)}

NotRun == [result |-> "not_run", lines |-> <<>>]

----------------------------------------------------------------------------
(* VecDeque *)

VecDequeFromZeros(n) == [i \in 1..n |-> 0]

pop_front_keep(q) == q
pop_front(q) == IF q = <<>> THEN q ELSE Tail(q)

push_front(q, v) == <<v>> \o q
push_back(q, v) == Append(q, v)

\* q.iter().copied().collect(): a new vector, front to back
Collect(q) == [i \in 1..Len(q) |-> q[i]]

saturating_sub(a, b) == IF a >= b THEN a - b ELSE 0

\* hist.push_back(v); if hist.len() > cap { hist.pop_front(); }
push_back_capped(q, v, cap) ==
    LET p == push_back(q, v) IN IF Len(p) > cap THEN pop_front(p) ELSE p

----------------------------------------------------------------------------
(* Monitors *)

CpuMonitor_new == [history |-> [c \in 1..NumCores |-> VecDequeFromZeros(HISTORY_SIZE)]]

CpuMonitor_update(m, os) ==
    [m EXCEPT !.history =
        [c \in 1..Len(m.history) |->
            push_back(pop_front(m.history[c]), CpuUsage(os, c))]]

get_all_cpu_data(m) == [c \in 1..Len(m.history) |-> Collect(m.history[c])]

MemPercent(os) == (UsedMemory(os) * 100) \div TotalMemory
SwapPercent(os) ==
    IF TotalSwap(os) > 0 THEN (UsedSwap(os) * 100) \div TotalSwap(os) ELSE 0

MemoryMonitor_new ==
    [mem_history  |-> VecDequeFromZeros(HISTORY_SIZE),
     swap_history |-> VecDequeFromZeros(HISTORY_SIZE)]

MemoryMonitor_update(m, os) ==
    [mem_history  |-> push_back(pop_front(m.mem_history), MemPercent(os)),
     swap_history |-> push_back(pop_front(m.swap_history), SwapPercent(os))]

get_memory_data(m) == Collect(m.mem_history)
get_swap_data(m) == Collect(m.swap_history)

NetworkMonitor_new(os) ==
    [rx_history |-> VecDequeFromZeros(HISTORY_SIZE),
     tx_history |-> VecDequeFromZeros(HISTORY_SIZE),
     total_rx   |-> TotalReceived(os),
     total_tx   |-> TotalTransmitted(os),
     last_rx    |-> TotalReceived(os),
     last_tx    |-> TotalTransmitted(os)]

NetworkMonitor_update(m, os) ==
    LET current_rx == TotalReceived(os)
        current_tx == TotalTransmitted(os)
        rx_sec == saturating_sub(current_rx, m.last_rx)
        tx_sec == saturating_sub(current_tx, m.last_tx)
    IN  [rx_history |-> push_back(pop_front(m.rx_history), rx_sec),
         tx_history |-> push_back(pop_front(m.tx_history), tx_sec),
         total_rx   |-> current_rx,
         total_tx   |-> current_tx,
         last_rx    |-> current_rx,
         last_tx    |-> current_tx]

get_network_data(m) == <<Collect(m.rx_history), Collect(m.tx_history)>>

\* GpuInfo::memory_percent: (used / total * 100.0) as u8
memory_percent(used, total) ==
    IF total = 0 THEN 0
    ELSE LET pct == (used * 100) \div total IN IF pct > 255 THEN 255 ELSE pct

\* GpuMonitor::new on a machine where nvidia-smi lists count cards
GpuMonitor_new(count) ==
    [gpus |-> <<>>,
     utilization_history |-> [i \in 1..count |-> <<>>],
     memory_history |-> [i \in 1..count |-> <<>>]]

\* line idx of the output is there and has all its fields
Parsed(out, idx) == idx <= Len(out.lines) /\ out.lines[idx].fields >= MIN_FIELDS

update_nvidia_default(m, out) ==
    IF out.result # "success" THEN m
    ELSE [gpus |-> out.lines,
          utilization_history |->
             [i \in 1..Len(m.utilization_history) |->
                 push_back_capped(m.utilization_history[i],
                    IF Parsed(out, i) THEN out.lines[i].utilization ELSE 0,
                    GPU_HISTORY_SIZE)],
          memory_history |->
             [i \in 1..Len(m.memory_history) |->
                 push_back_capped(m.memory_history[i], 0, GPU_HISTORY_SIZE)]]
\* GpuMonitor::update_nvidia
update_nvidia(m, out) ==
    IF out.result # "success" THEN m
    ELSE [gpus |->
             SelectSeq(out.lines, LAMBDA line : line.fields >= MIN_FIELDS),
          utilization_history |->
             [i \in 1..Len(m.utilization_history) |->
                 IF Parsed(out, i)
                 THEN push_back_capped(m.utilization_history[i],
                                       out.lines[i].utilization, GPU_HISTORY_SIZE)
                 ELSE m.utilization_history[i]],
          memory_history |->
             [i \in 1..Len(m.memory_history) |->
                 IF Parsed(out, i)
                 THEN push_back_capped(m.memory_history[i],
                        memory_percent(out.lines[i].memory_used,
                                       out.lines[i].memory_total),
                        GPU_HISTORY_SIZE)
                 ELSE m.memory_history[i]]]

RECURSIVE Sum(_)
Sum(s) == IF s = <<>> THEN 0 ELSE Head(s) + Sum(Tail(s))

Sensors == 1..NumSensors

\* TempMonitor::new: src/src keeps one history of the mean temperature,
\* dev/bench one history per sensor label, created at its first reading
TempMonitor_new(b, os) ==
    IF b = "src"
    THEN [history |-> <<>>, has_temps |-> Sensors # {}]
    ELSE [history |-> [s \in {} |-> <<>>],
          has_temps |-> \E s \in Sensors : Temperature(os, s) > 0]

TempMonitor_update_src(m, os) ==
    IF ~m.has_temps THEN m
    ELSE LET temps == [s \in Sensors |-> Temperature(os, s)]
             temp == IF temps # <<>> THEN Sum(temps) \div Len(temps) ELSE 0
         IN  [m EXCEPT !.history = push_back_capped(@, temp, TEMP_HISTORY_SIZE)]

TempMonitor_update_bench(m, os) ==
    LET has_temps == m.has_temps \/ \E s \in Sensors : Temperature(os, s) > 0
        read == {s \in Sensors : Temperature(os, s) > 0}
    IN  IF ~has_temps THEN m
        ELSE [has_temps |-> TRUE,
              history |->
                 [s \in DOMAIN m.history \cup read |->
                     IF s \in read
                     THEN push_back_capped(
                            IF s \in DOMAIN m.history THEN m.history[s] ELSE <<>>,
                            Temperature(os, s), TEMP_HISTORY_SIZE)
                     ELSE m.history[s]]]

TempMonitor_update(b, m, os) ==
    IF b = "src" THEN TempMonitor_update_src(m, os)
                 ELSE TempMonitor_update_bench(m, os)

----------------------------------------------------------------------------
(* Config and the clock *)

Categories == {"fast", "disk", "process"}

DefaultConfig ==
    [cpu |-> default_cpu_refresh, disk |-> default_disk_refresh,
     process |-> default_process_refresh]

\* a user configuration whose disk and process cadences differ
CustomConfig ==
    [cpu |-> default_cpu_refresh, disk |-> default_disk_refresh,
     process |-> custom_process_refresh]

\* Config after App::set_minimal_mode(true)
set_minimal_mode(cfg) ==
    [cfg EXCEPT !.cpu = minimal_cpu_refresh, !.disk = minimal_disk_refresh,
                !.process = minimal_disk_refresh]

cpu_refresh_duration(cfg) == cfg.cpu
disk_refresh_duration(cfg) == cfg.disk
process_refresh_duration(cfg) == cfg.process

Cadence(cfg, c) ==
    CASE c = "fast"    -> cpu_refresh_duration(cfg)
      [] c = "disk"    -> disk_refresh_duration(cfg)
      [] c = "process" -> process_refresh_duration(cfg)

\* Instant::duration_since: zero when earlier is later than t
duration_since(t, earlier) == saturating_sub(t, earlier)

----------------------------------------------------------------------------
(* App::update *)

Range(s) == {s[i] : i \in 1..Len(s)}

FastCallsSwapped(b, gpu, npu) ==
    <<"memory", "cpu", "network", "ping", "temp", "system", "battery", "diskio">>
        \o (IF gpu THEN <<"gpu">> ELSE <<>>)
        \o (IF b = "bench" /\ npu THEN <<"npu">> ELSE <<>>)

\* the monitor updates of the fast block, in the order of the calls
FastCalls(b, gpu, npu) ==
    <<"cpu", "memory", "network", "ping", "temp", "system", "battery", "diskio">>
        \o (IF gpu THEN <<"gpu">> ELSE <<>>)
        \o (IF b = "bench" /\ npu THEN <<"npu">> ELSE <<>>)

IsDueAlways(elapsed, cadence) == TRUE
\* elapsed >= self.config.<category>_refresh_duration()
IsDue(elapsed, cadence) == elapsed >= cadence

StampScheduled(t, last, cadence) == last + cadence
\* self.last_<category>_update = now
Stamp(t, last, cadence) == t

\* src/src/ui.rs: one timestamp; disk and process are tested inside the fast block
App_update_src(t) ==
    LET elapsed == duration_since(t, last_update)
        fast == IsDue(elapsed, cpu_refresh_duration(config))
    IN  [calls |->
            IF fast
            THEN FastCalls(build, gpu_enabled, npu_enabled)
                 \o (IF IsDue(elapsed, disk_refresh_duration(config))
                     THEN <<"disk">> ELSE <<>>)
                 \o (IF IsDue(elapsed, process_refresh_duration(config))
                     THEN <<"process">> ELSE <<>>)
            ELSE <<>>,
         last_update |->
            IF fast THEN Stamp(t, last_update, cpu_refresh_duration(config))
                    ELSE last_update,
         last_disk_update |-> last_disk_update,
         last_process_update |-> last_process_update]

\* dev/bench/src/ui.rs: one timestamp per category, three independent tests
App_update_bench(t) ==
    LET fast == IsDue(duration_since(t, last_update), cpu_refresh_duration(config))
        disk == IsDue(duration_since(t, last_disk_update),
                      disk_refresh_duration(config))
        proc == IsDue(duration_since(t, last_process_update),
                      process_refresh_duration(config))
    IN  [calls |->
            (IF fast THEN FastCalls(build, gpu_enabled, npu_enabled) ELSE <<>>)
            \o (IF disk THEN <<"disk">> ELSE <<>>)
            \o (IF proc THEN <<"process">> ELSE <<>>),
         last_update |->
            IF fast THEN Stamp(t, last_update, cpu_refresh_duration(config))
                    ELSE last_update,
         last_disk_update |->
            IF disk THEN Stamp(t, last_disk_update, disk_refresh_duration(config))
                    ELSE last_disk_update,
         last_process_update |->
            IF proc
            THEN Stamp(t, last_process_update, process_refresh_duration(config))
            ELSE last_process_update]

NoUpdate ==
    [calls |-> <<>>, last_update |-> last_update,
     last_disk_update |-> last_disk_update,
     last_process_update |-> last_process_update]

SkipPauseCheck(t) ==
    IF build = "src" THEN App_update_src(t) ELSE App_update_bench(t)

\* what one call of App::update decides when the clock reads t
App_update(t) ==
    IF paused THEN NoUpdate
    ELSE IF build = "src" THEN App_update_src(t) ELSE App_update_bench(t)

----------------------------------------------------------------------------
(* monitor/process.rs: ProcessMonitor *)

\* ProcessInfo of process pid when the operating system is in state os; a
\* name is the sequence of its characters
ProcessInfo(os, pid) ==
    [pid       |-> pid,
     name      |-> IF pid % 12 = 1 THEN <<"y", "a">> ELSE <<"k", "y">>,
     cpu_usage |-> (pid * 7 + os * 3) % 29,
     memory    |-> (pid * 5) % 29]

\* system.processes() after a refresh in state os, in the order of iteration:
\* many processes in the odd states, few in the even ones
refresh_processes(os) ==
    [pid \in 1..(IF os % 2 = 1 THEN NumProcesses ELSE NumFew) |->
        ProcessInfo(os, pid)]

ProcessMonitor_new ==
    [system |-> refresh_processes(1), sort_order |-> "Cpu", reverse |-> FALSE]

ProcessMonitor_update(self, os) == [self EXCEPT !.system = refresh_processes(os)]

set_sort_order(self, order) ==
    IF self.sort_order = order
    THEN [self EXCEPT !.reverse = ~self.reverse]
    ELSE [self EXCEPT !.sort_order = order, !.reverse = FALSE]

\* Vec::reverse
reverse(s) == [i \in 1..Len(s) |-> s[Len(s) + 1 - i]]

\* tree_view is never set by the App
get_sorted_processes(self) ==
    LET before(a, b) ==
            CASE self.sort_order = "Pid"    -> a.pid < b.pid
              [] self.sort_order = "Cpu"    -> a.cpu_usage > b.cpu_usage
              [] self.sort_order = "Memory" -> a.memory > b.memory
        processes == SortSeq(self.system, before)
    IN  IF self.reverse THEN reverse(processes) ELSE processes

run_app_next_swapped(at) ==
    CASE at = "check"  -> "draw"
      [] at = "draw"   -> "update"
      [] at = "update" -> "input"
      [] at = "input"  -> "check"
\* run_app: the step that follows step at in the loop.  check: the tests of
\* the running flag and of the run duration at the head of the loop
run_app_next(at) ==
    CASE at = "check"  -> "update"
      [] at = "update" -> "draw"
      [] at = "draw"   -> "input"
      [] at = "input"  -> "check"

\* the category a monitor update belongs to
FiredBy(cs) ==
    {c \in Categories :
        CASE c = "fast"    -> "cpu" \in Range(cs)
          [] c = "disk"    -> "disk" \in Range(cs)
          [] c = "process" -> "process" \in Range(cs)}

\* the GPU update did not take a sample of every card
GpuFailed(out) ==
    \/ out.result \in {"spawn_error", "exit_failure"}
    \/ out.result = "success" /\ \E i \in 1..NumGpus : ~Parsed(out, i)

\* One call of App::update: the clock has advanced by d, the operating system
\* is in state os.  logcap > 0 logs the clock readings of the first logcap calls
\* and stops the run after them.  faults: nvidia-smi may fail.
App_update_call(steps, horizon, oss, logcap, faults) ==
    /\ logcap > 0 => Len(tick_log) < logcap
    /\ \E d \in steps, os \in oss :
        LET t == now + d
            u == App_update(t)
            called(m) == m \in Range(u.calls)
            fired == FiredBy(u.calls)
        IN  /\ t <= horizon
            /\ \E out \in IF called("gpu") THEN NvidiaSmi(os, faults) ELSE {NotRun} :
                /\ gpu_monitor' = IF called("gpu") THEN update_nvidia(gpu_monitor, out)
                                                    ELSE gpu_monitor
                /\ gpu_output' = out
                /\ last_failed' = IF called("gpu") /\ GpuFailed(out) THEN t
                                                                      ELSE last_failed
            /\ temp_monitor' =
                IF called("temp") THEN TempMonitor_update(build, temp_monitor, os)
                                  ELSE temp_monitor
            /\ now' = t
            /\ calls' = u.calls
            /\ last_update' = u.last_update
            /\ last_disk_update' = u.last_disk_update
            /\ last_process_update' = u.last_process_update
            /\ cpu_monitor' =
                IF called("cpu") THEN CpuMonitor_update(cpu_monitor, os)
                                 ELSE cpu_monitor
            /\ memory_monitor' =
                IF called("memory") THEN MemoryMonitor_update(memory_monitor, os)
                                    ELSE memory_monitor
            /\ network_monitor' =
                IF called("network") THEN NetworkMonitor_update(network_monitor, os)
                                     ELSE network_monitor
            /\ process_monitor' =
                IF called("process") THEN ProcessMonitor_update(process_monitor, os)
                                     ELSE process_monitor
            /\ pushed' =
                [cpu  |-> IF called("cpu")
                          THEN [c \in 1..NumCores |->
                                   Append(pushed.cpu[c], CpuUsage(os, c))]
                          ELSE pushed.cpu,
                 mem  |-> IF called("memory")
                          THEN Append(pushed.mem, MemPercent(os)) ELSE pushed.mem,
                 swap |-> IF called("memory")
                          THEN Append(pushed.swap, SwapPercent(os)) ELSE pushed.swap,
                 rx   |-> IF called("network")
                          THEN Append(pushed.rx,
                                 saturating_sub(TotalReceived(os),
                                                network_monitor.last_rx))
                          ELSE pushed.rx,
                 tx   |-> IF called("network")
                          THEN Append(pushed.tx,
                                 saturating_sub(TotalTransmitted(os),
                                                network_monitor.last_tx))
                          ELSE pushed.tx]
            /\ last_fired' =
                [c \in Categories |-> IF c \in fired THEN t ELSE last_fired[c]]
            /\ fire_count' =
                [c \in Categories |->
                    IF c \in fired THEN fire_count[c] + 1 ELSE fire_count[c]]
            /\ tick_log' = IF logcap > 0 THEN Append(tick_log, t) ELSE tick_log
    /\ resumed' = FALSE
    /\ UNCHANGED <<build, config, gpu_enabled, npu_enabled, paused, show_help, key,
                   renderer, rendered, meter, metered, list_vars, signal_vars>>

\* app.update() in the loop of run_app
Update(steps, horizon, oss, logcap, faults) ==
    /\ pc = "update"
    /\ App_update_call(steps, horizon, oss, logcap, faults)
    /\ pc' = run_app_next("update")
    /\ trace' = Append(trace, "update")

----------------------------------------------------------------------------
(* App::draw: reads the snapshots of the monitors, changes nothing *)

\* Regex::is_match for a pattern of letters and digits: name contains it
is_match(regex, name) ==
    \E i \in 1..(Len(name) - Len(regex) + 1) :
        SubSeq(name, i, i + Len(regex) - 1) = regex

\* draw_processes on an area of VISIBLE + 3 rows or more.  The filter is
\* process_filter_regex, which is None for the empty process_filter and the
\* regex of process_filter otherwise.  A slice that starts after its end panics.
draw_processes ==
    LET sorted == get_sorted_processes(process_monitor)
        processes == IF process_filter = <<>> THEN sorted
                     ELSE SelectSeq(sorted, LAMBDA p : is_match(process_filter, p.name))
        total_processes == Len(processes)
        end_index == IF process_scroll + VISIBLE < total_processes
                     THEN process_scroll + VISIBLE ELSE total_processes
    IN  [total    |-> total_processes,
         panicked |-> process_scroll > end_index,
         slice    |-> SubSeq(processes, process_scroll + 1, end_index)]

DrawDraining ==
    /\ pc = "draw"
    /\ pc' = run_app_next("draw")
    /\ trace' = Append(trace, "draw")
    /\ cpu_monitor' = CpuMonitor_new
    /\ UNCHANGED <<build, config, gpu_enabled, npu_enabled, now, last_update,
                   last_disk_update, last_process_update, paused, show_help, key,
                   calls, memory_monitor, network_monitor,
                   gpu_monitor, temp_monitor, gpu_output, last_failed, renderer,
                   rendered, meter, metered, process_monitor, list_vars,
                   signal_vars, pushed, last_fired, fire_count, tick_log, resumed>>
\* the overview and the process page draw the process list
Draw ==
    /\ pc = "draw"
    /\ pc' = IF current_page \in {"Overview", "Processes"} /\ draw_processes.panicked
             THEN "panic" ELSE run_app_next("draw")
    /\ trace' = Append(trace, "draw")
    /\ UNCHANGED <<build, config, gpu_enabled, npu_enabled, now, last_update,
                   last_disk_update, last_process_update, paused, show_help, key,
                   calls, cpu_monitor, memory_monitor, network_monitor,
                   gpu_monitor, temp_monitor, gpu_output, last_failed, renderer,
                   rendered, meter, metered, process_monitor, list_vars,
                   signal_vars, pushed, last_fired, fire_count, tick_log, resumed>>

----------------------------------------------------------------------------
(* App::handle_input.  Events: "none" (the 50 ms poll timed out), the keys  *)
(* and the events of the mouse                                               *)

\* mouse.row of a click of the left button
MouseRow == [click_3 |-> 3, click_4 |-> 4, click_5 |-> 5, click_24 |-> 24]
MouseEvents == {"scroll_up", "scroll_down"} \union DOMAIN MouseRow

\* the fields of the App that handle_input may change, the value it returns
\* (quit) and its history: kill, the pid a kill was sent to, and selected,
\* the pid at the index it selected
App_fields ==
    [show_help |-> show_help, paused |-> paused, quit |-> FALSE,
     process_monitor |-> process_monitor, process_filter |-> process_filter,
     process_scroll |-> process_scroll, process_selected |-> process_selected,
     show_kill_confirm |-> show_kill_confirm, current_page |-> current_page,
     kill |-> <<>>, selected |-> <<>>]

kill_selected_process(self) ==
    LET processes == get_sorted_processes(self.process_monitor)
    IN  IF self.process_selected # <<>> /\ self.process_selected[1] < Len(processes)
        THEN [self EXCEPT !.kill = <<processes[self.process_selected[1] + 1].pid>>,
                          !.process_selected = <<>>]
        ELSE self

\* Some(index) becomes the selection
select(self, index) ==
    [self EXCEPT !.process_selected = <<index>>,
                 !.selected = <<get_sorted_processes(self.process_monitor)[index + 1].pid>>]

\* the keys of the model that are letters and reach the arm of the filter
is_alphanumeric(k) == k \in {"a", "k", "y", "Y"}

\* the arms of the keys, with neither the dialog nor the help open
handle_key_page(k) ==
    LET self == App_fields
        max_processes == Len(get_sorted_processes(process_monitor))
    IN  CASE k \in {"q", "esc", "ctrl_c"} -> [self EXCEPT !.quit = TRUE]
        [] k \in {"h", "F1"} -> [self EXCEPT !.show_help = ~show_help]
        [] k = "space" -> [self EXCEPT !.paused = ~paused]
        [] k = "p" -> [self EXCEPT !.process_monitor = set_sort_order(@, "Pid")]
        [] k = "c" -> [self EXCEPT !.process_monitor = set_sort_order(@, "Cpu")]
        [] k = "m" ->
             [self EXCEPT !.process_monitor = set_sort_order(@, "Memory")]
        [] k = "k" /\ process_selected # <<>> ->
             [self EXCEPT !.show_kill_confirm = TRUE]
        [] k = "slash" -> [self EXCEPT !.process_filter = <<>>]
        [] k = "backspace" /\ process_filter # <<>> ->
             [self EXCEPT !.process_filter = SubSeq(@, 1, Len(@) - 1)]
        [] is_alphanumeric(k) /\ ~(k = "k" /\ process_selected # <<>>) ->
             IF Len(process_filter) < MAX_FILTER
             THEN [self EXCEPT !.process_filter = Append(@, k)]
             ELSE self
        [] k = "F2" -> [self EXCEPT !.current_page = "Overview"]
        [] k = "F3" -> [self EXCEPT !.current_page = "Processes"]
        [] k = "F4" -> [self EXCEPT !.current_page = "Network"]
        [] k = "F5" -> [self EXCEPT !.current_page = "Storage"]
        [] k = "up" ->
             IF process_scroll > 0
             THEN [self EXCEPT !.process_scroll = @ - 1] ELSE self
        [] k = "down" ->
             IF process_scroll < saturating_sub(max_processes, VISIBLE)
             THEN [self EXCEPT !.process_scroll = @ + 1] ELSE self
        [] k = "pageup" ->
             [self EXCEPT !.process_scroll = saturating_sub(@, PAGE)]
        [] k = "pagedown" ->
             LET last == saturating_sub(max_processes, VISIBLE)
             IN  [self EXCEPT !.process_scroll =
                     IF @ + PAGE < last THEN @ + PAGE ELSE last]
        [] k = "home" -> [self EXCEPT !.process_scroll = 0]
        [] k = "end" ->
             [self EXCEPT !.process_scroll =
                 saturating_sub(max_processes, VISIBLE)]
        [] k = "enter" ->
             IF process_scroll < max_processes
             THEN select(self, process_scroll) ELSE self
        [] OTHER -> self

handle_key_through(k) ==
    IF k \in {"y", "Y"}
    THEN [kill_selected_process(App_fields) EXCEPT !.show_kill_confirm = FALSE]
    ELSE [handle_key_page(k) EXCEPT !.show_kill_confirm = FALSE]
\* the arms of the keys with the kill dialog open
handle_key_confirm(k) ==
    IF k \in {"y", "Y"}
    THEN [kill_selected_process(App_fields) EXCEPT !.show_kill_confirm = FALSE]
    ELSE [App_fields EXCEPT !.show_kill_confirm = FALSE]

\* the new fields for key k
handle_key(k) ==
    IF show_kill_confirm THEN handle_key_confirm(k)
    ELSE IF show_help THEN [App_fields EXCEPT !.show_help = FALSE]
    ELSE handle_key_page(k)

\* mouse_enabled is true from App::new on
handle_mouse(ev) ==
    LET self == App_fields
        max_processes == Len(get_sorted_processes(process_monitor))
    IN  CASE ev = "scroll_up" ->
                IF process_scroll > 0
                THEN [self EXCEPT !.process_scroll = @ - 1] ELSE self
          [] ev = "scroll_down" ->
                IF process_scroll < saturating_sub(max_processes, VISIBLE)
                THEN [self EXCEPT !.process_scroll = @ + 1] ELSE self
          [] OTHER ->
                LET row == MouseRow[ev]
                    index == row - FIRST_ROW + process_scroll
                IN  IF row > 3 /\ row < 24 /\ index < max_processes
                    THEN select(self, index) ELSE self

\* the filter of the model has MaxFilter characters at most
HandleInput(events) ==
    /\ pc = "input"
    /\ \E ev \in events :
        LET r == IF ev = "none" THEN App_fields
                 ELSE IF ev \in MouseEvents THEN handle_mouse(ev)
                 ELSE handle_key(ev)
        IN  /\ Len(r.process_filter) <= MaxFilter
            /\ key' = ev
            /\ show_help' = r.show_help
            /\ paused' = r.paused
            /\ process_monitor' = r.process_monitor
            /\ process_filter' = r.process_filter
            /\ process_scroll' = r.process_scroll
            /\ process_selected' = r.process_selected
            /\ show_kill_confirm' = r.show_kill_confirm
            /\ current_page' = r.current_page
            /\ kill_sent' = r.kill
            /\ selected_pid' = IF r.selected # <<>> THEN r.selected[1] ELSE selected_pid
            /\ pc' = IF r.quit THEN "exit" ELSE run_app_next("input")
            /\ resumed' = (paused /\ ~r.paused)
    /\ UNCHANGED <<build, config, gpu_enabled, npu_enabled, now, last_update,
                   last_disk_update, last_process_update, calls, cpu_monitor,
                   memory_monitor, network_monitor, gpu_monitor, temp_monitor,
                   gpu_output, last_failed, renderer, rendered, meter, metered,
                   signal_vars, pushed, last_fired, fire_count, tick_log>>
    /\ trace' = Append(trace, "input")

----------------------------------------------------------------------------
(* run_app: the head of the loop, the ctrlc handler, failures of the terminal *)

\* everything but the position of the loop and the flag of the handler
state_vars ==
    <<build, config, gpu_enabled, npu_enabled, now, last_update,
      last_disk_update, last_process_update, paused, show_help, key, calls,
      cpu_monitor, memory_monitor, network_monitor, gpu_monitor, temp_monitor,
      gpu_output, last_failed, renderer, rendered, meter, metered,
      process_monitor, list_vars, pushed, last_fired, fire_count, tick_log,
      resumed>>

CheckIgnoringFlag(durations) ==
    /\ pc = "check"
    /\ \E run_duration \in durations :
        pc' = IF run_duration # <<>> /\ now >= run_duration[1]
              THEN "exit" ELSE run_app_next("check")
    /\ trace' = <<"check">>
    /\ UNCHANGED <<state_vars, signal_vars>>
\* the head of the loop; run_duration is <<>> (None) or <<d>> (Some(d)), and
\* start_time.elapsed() is the clock as last read
Check(durations) ==
    /\ pc = "check"
    /\ \E run_duration \in durations :
        pc' = IF ~running THEN "exit"
              ELSE IF run_duration # <<>> /\ now >= run_duration[1] THEN "exit"
              ELSE run_app_next("check")
    /\ trace' = <<"check">>
    /\ UNCHANGED <<state_vars, signal_vars>>

\* the ctrlc handler, on its own thread: r.store(false, Ordering::SeqCst)
Interrupt ==
    /\ pc \notin {"exit", "error", "panic"}
    /\ running' = FALSE
    /\ signal_at' = IF signal_at = "none" THEN pc ELSE signal_at
    /\ UNCHANGED <<state_vars, pc, trace>>

\* terminal.draw(..)? returns the error of the terminal
DrawError ==
    /\ pc = "draw"
    /\ pc' = "error"
    /\ trace' = Append(trace, "draw")
    /\ UNCHANGED <<state_vars, signal_vars>>

\* app.handle_input()? returns the error of event::poll or event::read
InputError ==
    /\ pc = "input"
    /\ pc' = "error"
    /\ trace' = Append(trace, "input")
    /\ UNCHANGED <<state_vars, signal_vars>>

----------------------------------------------------------------------------
(* graphics.rs: GraphRenderer.  A sample (f64) is a rational <<n, d>>, d > 0; *)
(* the arithmetic of value_to_symbol_index is done exactly, which is what    *)
(* the f64 operations give on the samples and heights used here.  A glyph is *)
(* the code point of its character, a row the sequence of its glyphs.        *)

Rat(n, d) == <<n, d>>
Less(a, b) == a[1] * b[2] < b[1] * a[2]
LessEq(a, b) == a[1] * b[2] <= b[1] * a[2]
Sub(a, b) == <<a[1] * b[2] - b[1] * a[2], a[2] * b[2]>>
Mul(a, b) == <<a[1] * b[1], a[2] * b[2]>>
\* a / b, b > 0
Div(a, b) == <<a[1] * b[2], a[2] * b[1]>>

\* f64::clamp
clamp(v, min, max) == IF Less(v, min) THEN min ELSE IF Less(max, v) THEN max ELSE v

trunc(x) == IF x[1] >= 0 THEN x[1] \div x[2] ELSE 0
\* x.round() as usize: to the nearest integer, halves away from zero; a
\* negative value becomes 0
round(x) == IF x[1] >= 0 THEN (2 * x[1] + x[2]) \div (2 * x[2]) ELSE 0

no_clamp(n, min, max) == n
\* usize::clamp
clamp_usize(n, min, max) == IF n < min THEN min ELSE IF n > max THEN max ELSE n

\* usize::min
min(a, b) == IF a <= b THEN a ELSE b

BRAILLE_UP ==
    <<32, 10368, 10400, 10416, 10424,
      10304, 10432, 10464, 10480, 10488,
      10308, 10436, 10468, 10484, 10492,
      10310, 10438, 10470, 10486, 10494,
      10311, 10439, 10471, 10487, 10495>>

BRAILLE_DOWN ==
    <<32, 10248, 10264, 10296, 10424,
      10241, 10249, 10265, 10297, 10425,
      10243, 10251, 10267, 10299, 10427,
      10247, 10255, 10271, 10303, 10431,
      10311, 10319, 10335, 10367, 10495>>

BLOCK_UP ==
    <<32, 9623, 9623, 9616, 9616,
      9622, 9604, 9604, 9631, 9631,
      9622, 9604, 9604, 9631, 9631,
      9612, 9625, 9625, 9608, 9608,
      9612, 9625, 9625, 9608, 9608>>

BLOCK_DOWN ==
    <<32, 9629, 9629, 9616, 9616,
      9624, 9600, 9600, 9628, 9628,
      9624, 9600, 9600, 9628, 9628,
      9612, 9627, 9627, 9608, 9608,
      9612, 9627, 9627, 9608, 9608>>

TTY_UP ==
    <<32, 9617, 9617, 9618, 9618,
      9617, 9617, 9618, 9618, 9608,
      9617, 9618, 9618, 9618, 9608,
      9618, 9618, 9618, 9608, 9608,
      9618, 9608, 9608, 9608, 9608>>

TTY_DOWN ==
    <<32, 9617, 9617, 9618, 9618,
      9617, 9617, 9618, 9618, 9608,
      9617, 9618, 9618, 9618, 9608,
      9618, 9618, 9618, 9608, 9608,
      9618, 9608, 9608, 9608, 9608>>

GraphSymbols == {"Braille", "Block", "Tty"}

get_symbols_short(symbol, inverted) == Tail(BRAILLE_UP)
\* GraphSymbol::get_symbols
get_symbols(symbol, inverted) ==
    CASE symbol = "Braille" /\ ~inverted -> BRAILLE_UP
      [] symbol = "Braille" /\ inverted  -> BRAILLE_DOWN
      [] symbol = "Block" /\ ~inverted   -> BLOCK_UP
      [] symbol = "Block" /\ inverted    -> BLOCK_DOWN
      [] symbol = "Tty" /\ ~inverted     -> TTY_UP
      [] symbol = "Tty" /\ inverted      -> TTY_DOWN

GraphRenderer_new_zero(width, height, symbol, inverted) ==
    [width |-> width, height |-> height, symbol |-> symbol,
     inverted |-> inverted, no_zero |-> FALSE]
\* GraphRenderer::new
GraphRenderer_new(width, height, symbol, inverted) ==
    [width |-> width, height |-> height, symbol |-> symbol,
     inverted |-> inverted, no_zero |-> TRUE]

\* GraphRenderer::value_to_symbol_index
value_to_symbol_index(self, value, cur_low, cur_high) ==
    LET clamp_min == IF self.no_zero /\ Less(Rat(0, 1), value) THEN 1 ELSE 0
    IN  IF LessEq(cur_high, value) THEN 4
        ELSE IF LessEq(value, cur_low) THEN clamp_min
        ELSE LET range == Sub(cur_high, cur_low)
                 normalized == Mul(Div(Sub(value, cur_low), range), Rat(4, 1))
             IN  clamp_usize(round(normalized), clamp_min, 4)

data_offset_none(self, data) == 0
\* the index of the first sample of data that is drawn
data_offset(self, data) ==
    IF Len(data) > self.width * 2 THEN Len(data) - self.width * 2 ELSE 0

\* the value band of row h, 0 <= h < height
cur_high(self, h) ==
    IF self.height > 1 THEN Rat(100 * (self.height - h), self.height)
                       ELSE Rat(100, 1)
cur_low(self, h) ==
    IF self.height > 1 THEN Rat(100 * (self.height - (h + 1)), self.height)
                       ELSE Rat(0, 1)

second_zero(data, i) == Rat(0, 1)
\* v2 of the pair that starts at index i (from 0) of data
second(data, i) ==
    IF i + 1 < Len(data) THEN clamp(data[i + 2], Rat(0, 1), Rat(100, 1))
                         ELSE clamp(data[i + 1], Rat(0, 1), Rat(100, 1))

StepsInclusive(self, data) ==
    (Len(data) - data_offset(self, data) + 2) \div 2
\* the passes of the loop over the pairs: (data_offset..data_len).step_by(2)
Steps(self, data) == (Len(data) - data_offset(self, data) + 1) \div 2

\* what pass k (from 1) of the loop over the pairs computes for row h
Cell(self, data, k, h) ==
    LET i == data_offset(self, data) + 2 * (k - 1)
        v1 == clamp(data[i + 1], Rat(0, 1), Rat(100, 1))
        v2 == second(data, i)
        idx1 == value_to_symbol_index(self, v1, cur_low(self, h), cur_high(self, h))
        idx2 == value_to_symbol_index(self, v2, cur_low(self, h), cur_high(self, h))
    IN  [i |-> i, v1 |-> v1, v2 |-> v2, idx1 |-> idx1, idx2 |-> idx2,
         symbol_idx |-> min(idx1 * 5 + idx2, 24)]

Cells(self, data) ==
    [row \in 1..self.height |->
        [k \in 1..Steps(self, data) |-> Cell(self, data, k, row - 1)]]

\* GraphRenderer::render: one row per height level, top first.  The local
\* last_value is written and never read.
render(self, data) ==
    LET symbols == get_symbols(self.symbol, self.inverted)
    IN  [row \in 1..self.height |->
            [k \in 1..Steps(self, data) |->
                symbols[Cell(self, data, k, row - 1).symbol_idx + 1]]]

\* no GraphRenderer is built: ui.rs imports the type and never uses it
NoRenderer == GraphRenderer_new(0, 0, "Braille", FALSE)
NotRendered ==
    [called |-> FALSE, data |-> <<>>, panicked |-> FALSE, output |-> <<>>,
     cells |-> <<>>]

\* the indices (from 0) at which render reads data
Reads(self, data) ==
    LET off == data_offset(self, data)
        starts == {off + 2 * (k - 1) : k \in 1..Steps(self, data)}
    IN  (IF off > 0 THEN {off - 1} ELSE {})
        \cup starts
        \cup {i + 1 : i \in {j \in starts : j + 1 < Len(data)}}

\* render panics: a read outside data
Panics(self, data) == \E i \in Reads(self, data) : i < 0 \/ i >= Len(data)

\* the call of render on the renderer, for any of the series
Render(series) ==
    /\ ~rendered.called
    /\ \E data \in series :
        rendered' =
            IF Panics(renderer, data)
            THEN [called |-> TRUE, data |-> data, panicked |-> TRUE,
                  output |-> <<>>, cells |-> <<>>]
            ELSE [called |-> TRUE, data |-> data, panicked |-> FALSE,
                  output |-> render(renderer, data),
                  cells |-> Cells(renderer, data)]
    /\ UNCHANGED <<build, config, gpu_enabled, npu_enabled, now, last_update,
                   last_disk_update, last_process_update, paused, show_help, pc,
                   key, calls, cpu_monitor, memory_monitor, network_monitor,
                   gpu_monitor, temp_monitor, gpu_output, last_failed, pushed,
                   last_fired, fire_count, tick_log, resumed, renderer, meter,
                   metered, process_monitor, list_vars, signal_vars, trace>>

\* symbols::METER and the empty segment of render_segmented
METER == 9632
EMPTY_SEGMENT == 9617

\* str::repeat
repeat(glyph, n) == [i \in 1..n |-> glyph]

\* MeterRenderer::new
MeterRenderer_new(width) == [width |-> width]

MeterRenderer_render_unclamped(self, v) == repeat(METER, (self.width * v) \div 100)
\* MeterRenderer::render, v: u8
MeterRenderer_render(self, v) ==
    LET value == min(v, 100)
        filled == (self.width * value) \div 100
    IN  repeat(METER, filled)

\* MeterRenderer::render_segmented, v: u8
MeterRenderer_render_segmented(self, v) ==
    LET value == min(v, 100)
        segments == self.width
        filled == (segments * value) \div 100
    IN  [i \in 1..segments |-> IF i - 1 < filled THEN METER ELSE EMPTY_SEGMENT]

\* no MeterRenderer is built either
NoMeter == MeterRenderer_new(0)
NotMetered == [called |-> "none", value |-> 0, output |-> <<>>]

\* the call of MeterRenderer::render, for any value
Meter(values) ==
    /\ metered.called = "none"
    /\ \E v \in values :
        metered' = [called |-> "render", value |-> v,
                    output |-> MeterRenderer_render(meter, v)]
    /\ UNCHANGED <<build, config, gpu_enabled, npu_enabled, now, last_update,
                   last_disk_update, last_process_update, paused, show_help, pc,
                   key, calls, cpu_monitor, memory_monitor, network_monitor,
                   gpu_monitor, temp_monitor, gpu_output, last_failed, pushed,
                   last_fired, fire_count, tick_log, resumed, renderer, rendered,
                   meter, process_monitor, list_vars, signal_vars, trace>>

\* the call of MeterRenderer::render_segmented, for any value
MeterSegmented(values) ==
    /\ metered.called = "none"
    /\ \E v \in values :
        metered' = [called |-> "render_segmented", value |-> v,
                    output |-> MeterRenderer_render_segmented(meter, v)]
    /\ UNCHANGED <<build, config, gpu_enabled, npu_enabled, now, last_update,
                   last_disk_update, last_process_update, paused, show_help, pc,
                   key, calls, cpu_monitor, memory_monitor, network_monitor,
                   gpu_monitor, temp_monitor, gpu_output, last_failed, pushed,
                   last_fired, fire_count, tick_log, resumed, renderer, rendered,
                   meter, process_monitor, list_vars, signal_vars, trace>>

\* the application builds no renderer
NoRenderers == renderer = NoRenderer /\ meter = NoMeter

\* main goes on to run_app
AtLoop == pc = "check" /\ NoRenderers

----------------------------------------------------------------------------
(* App::new and the specifications *)

\* hws: the machines, as <<has a GPU, has an NPU>>; src/src/ui.rs has no NPU monitor
InitApp(builds, configs, hws) ==
    /\ build \in builds
    /\ config \in configs
    /\ \E hw \in hws :
        /\ gpu_enabled = hw[1]
        /\ npu_enabled = (build = "bench" /\ hw[2])
    /\ now = 0
    /\ last_update = 0
    /\ last_disk_update = 0
    /\ last_process_update = 0
    /\ paused = FALSE
    /\ show_help = FALSE
    /\ process_monitor = ProcessMonitor_new
    /\ process_filter = <<>>
    /\ process_scroll = 0
    /\ process_selected = <<>>
    /\ show_kill_confirm = FALSE
    /\ current_page = "Overview"
    /\ kill_sent = <<>>
    /\ selected_pid = 0
    /\ running = TRUE
    /\ signal_at = "none"
    /\ trace = <<>>
    /\ key = "none"
    /\ calls = <<>>
    /\ cpu_monitor = CpuMonitor_new
    /\ memory_monitor = MemoryMonitor_new
    /\ network_monitor = NetworkMonitor_new(0)
    /\ gpu_monitor = GpuMonitor_new(IF gpu_enabled THEN NumGpus ELSE 0)
    /\ temp_monitor = TempMonitor_new(build, 0)
    /\ gpu_output = NotRun
    /\ last_failed = -1
    /\ rendered = NotRendered
    /\ metered = NotMetered
    /\ pushed = [cpu |-> [c \in 1..NumCores |-> <<>>], mem |-> <<>>,
                 swap |-> <<>>, rx |-> <<>>, tx |-> <<>>]
    /\ last_fired = [c \in Categories |-> 0]
    /\ fire_count = [c \in Categories |-> 0]
    /\ tick_log = <<>>
    /\ resumed = FALSE

Builds == {"src", "bench"}
TickSteps == {0, 900, 1100}
LoggedSteps == {0, 200, 900, 1100}
Readings == 1..NumReadings
Events == {"none", "space", "h", "q"}

\* the application: any tick spacing, any input
Init ==
    InitApp(Builds, {DefaultConfig, CustomConfig}, {<<TRUE, TRUE>>})
    /\ AtLoop
AppUpdate == Update(TickSteps, MaxTime, Readings, 0, FALSE)
AppDraw == Draw
AppHandleInput == HandleInput(Events)
Next == Check({<<>>}) \/ AppUpdate \/ AppDraw \/ AppHandleInput
Spec == Init /\ [][Next]_vars

\* a logged run of ticks: any machine, no input
Hardware == BOOLEAN \X BOOLEAN
InitTicks ==
    InitApp(Builds, {DefaultConfig, CustomConfig, set_minimal_mode(DefaultConfig)},
            Hardware)
    /\ AtLoop
TickUpdate == Update(LoggedSteps, MaxTime, {1}, MaxTicks, FALSE)
TickDraw == Draw
TickHandleInput == HandleInput({"none"})
NextTicks == Check({<<>>}) \/ TickUpdate \/ TickDraw \/ TickHandleInput
SpecTicks == InitTicks /\ [][NextTicks]_vars

\* a long run of the monitors: one tick per fast cadence, the operating system
\* counters move on at every tick
InitHistory == InitApp(Builds, {DefaultConfig}, Hardware) /\ AtLoop
HistoryUpdate ==
    Update({default_cpu_refresh}, HistoryRun * default_cpu_refresh,
           {fire_count["fast"] + 1}, 0, FALSE)
HistoryDraw == Draw
HistoryHandleInput == HandleInput({"none"})
NextHistory == Check({<<>>}) \/ HistoryUpdate \/ HistoryDraw \/ HistoryHandleInput
SpecHistory == InitHistory /\ [][NextHistory]_vars

\* a run in which nvidia-smi may fail at any GPU update
FaultSteps == {0, 500, 1000}
InitFaults ==
    InitApp(Builds, {DefaultConfig}, {<<TRUE, FALSE>>, <<TRUE, TRUE>>})
    /\ AtLoop
FaultUpdate ==
    Update(FaultSteps, FaultRun * default_cpu_refresh, {fire_count["fast"] + 1},
           0, TRUE)
FaultDraw == Draw
FaultHandleInput == HandleInput({"none"})
NextFaults == Check({<<>>}) \/ FaultUpdate \/ FaultDraw \/ FaultHandleInput
SpecFaults == InitFaults /\ [][NextFaults]_vars

\* the renderer alone: any renderer, render called on any series
Samples ==
    {Rat(-10, 1), Rat(0, 1), Rat(1, 2), Rat(50, 1), Rat(51, 1), Rat(99, 1),
     Rat(100, 1), Rat(125, 1)}
ShortSeries == UNION {[1..n -> Samples] : n \in 0..MaxLen}
\* series longer than the widest renderer draws
LongSeries ==
    {[i \in 1..n |-> Rat(42, 1)] : n \in (MaxLen + 1)..MaxLong}
    \cup {[i \in 1..n |-> Rat((i * 37) % 101, 1)] : n \in (MaxLen + 1)..MaxLong}
Series == ShortSeries \cup LongSeries
Renderers ==
    {GraphRenderer_new(w, h, s, inv) :
        w \in 0..MaxWidth, h \in 0..MaxHeight, s \in GraphSymbols, inv \in BOOLEAN}
InitRender ==
    /\ InitApp({"src"}, {DefaultConfig}, {<<FALSE, FALSE>>})
    /\ pc = "check"
    /\ renderer \in Renderers
    /\ meter = NoMeter
GraphRender == Render(Series)
NextRender == GraphRender
SpecRender == InitRender /\ [][NextRender]_vars

\* the loop with interrupts, a run duration and a terminal that may fail
InitLoop == InitApp(Builds, {DefaultConfig}, {<<FALSE, FALSE>>}) /\ AtLoop
NextLoop ==
    \/ Check({<<LoopDuration>>})
    \/ Update({0, 1100}, MaxTime, {1}, 0, FALSE)
    \/ Draw
    \/ HandleInput({"none", "q"})
    \/ Interrupt
    \/ DrawError
    \/ InputError
SpecLoop == InitLoop /\ [][NextLoop]_vars

\* the process list, with one update of the processes at most: the keys of
\* the selection and of the kill dialog
InitUI == InitApp({"bench"}, {DefaultConfig}, {<<FALSE, FALSE>>}) /\ AtLoop
NextKill ==
    \/ Check({<<>>})
    \/ Update({0, default_process_refresh}, default_process_refresh, Readings, 0,
              FALSE)
    \/ Draw
    \/ HandleInput({"none", "q", "space", "p", "k", "y", "Y", "end", "enter",
                    "click_4"})
SpecKill == InitUI /\ [][NextKill]_vars

\* the process list: the keys and the mouse events that scroll it or edit
\* the filter
NextScroll ==
    \/ Check({<<>>})
    \/ Update({0, default_process_refresh}, default_process_refresh, Readings, 0,
              FALSE)
    \/ Draw
    \/ HandleInput({"none", "up", "down", "pageup", "pagedown", "home", "end",
                    "a", "y", "backspace", "slash", "F4", "F2", "scroll_up",
                    "scroll_down", "click_3", "click_24"})
SpecScroll == InitUI /\ [][NextScroll]_vars

\* An Instant has no origin and App::update reads differences of Instants
\* only: between two iterations, once the clock and every timestamp of the
\* build have passed epoch, all of them are moved back by epoch, and the
\* history variables that count or collect start anew.
Rebase(epoch) ==
    LET own == build = "bench"
    IN  /\ pc = "check"
        /\ now >= epoch
        /\ last_update >= epoch
        /\ own => last_disk_update >= epoch /\ last_process_update >= epoch
        /\ now' = now - epoch
        /\ last_update' = last_update - epoch
        /\ last_disk_update' = IF own THEN last_disk_update - epoch ELSE last_disk_update
        /\ last_process_update' =
                IF own THEN last_process_update - epoch ELSE last_process_update
        /\ last_fired' = [c \in Categories |-> saturating_sub(last_fired[c], epoch)]
        /\ fire_count' = [c \in Categories |-> 0]
        /\ pushed' = [cpu |-> [c \in 1..NumCores |-> <<>>], mem |-> <<>>,
                       swap |-> <<>>, rx |-> <<>>, tx |-> <<>>]
        /\ UNCHANGED <<build, config, gpu_enabled, npu_enabled, paused, show_help,
                       key, calls, cpu_monitor, memory_monitor, network_monitor,
                       gpu_monitor, temp_monitor, gpu_output, last_failed,
                       renderer, rendered, meter, metered, process_monitor,
                       list_vars, signal_vars, pc, trace, tick_log, resumed>>

\* the loop running for ever, never paused, no event within the 50 ms of the poll
InitLive == InitApp(Builds, {DefaultConfig}, {<<FALSE, FALSE>>}) /\ AtLoop
NextLive ==
    \/ Check({<<>>})
    \/ Update({PollTimeout}, 3 * Epoch, {1}, 0, FALSE)
    \/ Draw
    \/ HandleInput({"none"})
    \/ Rebase(Epoch)
SpecLive == InitLive /\ [][NextLive]_vars /\ WF_vars(NextLive)

\* export_and_exit: the step that follows step at
export_and_exit_next(at) ==
    CASE at = "export_update"       -> "export_sleep"
      [] at = "export_sleep"        -> "export_update_again"
      [] at = "export_update_again" -> "export_collect"
      [] at = "export_collect"      -> "export_done"

\* app.update() in export_and_exit, some milliseconds after the step before
ExportUpdate(steps) ==
    /\ pc \in {"export_update", "export_update_again"}
    /\ App_update_call(steps, MaxTime, Readings, 0, FALSE)
    /\ pc' = export_and_exit_next(pc)
    /\ UNCHANGED trace

\* std::thread::sleep: the thread sleeps for the duration at least
ExportSleep(overshoots) ==
    /\ pc = "export_sleep"
    /\ \E d \in overshoots : now' = now + EXPORT_SLEEP + d
    /\ pc' = export_and_exit_next(pc)
    /\ UNCHANGED <<build, config, gpu_enabled, npu_enabled, last_update,
                   last_disk_update, last_process_update, paused, show_help, key,
                   calls, cpu_monitor, memory_monitor, network_monitor,
                   gpu_monitor, temp_monitor, gpu_output, last_failed, renderer,
                   rendered, meter, metered, process_monitor, list_vars,
                   signal_vars, trace, pushed, last_fired, fire_count, tick_log,
                   resumed>>

\* app.collect_metrics(): reads the snapshots of the monitors
ExportCollect ==
    /\ pc = "export_collect"
    /\ pc' = export_and_exit_next(pc)
    /\ UNCHANGED <<state_vars, signal_vars, trace>>

\* export mode: the sleep overshoots by little, or by as much again
InitExport ==
    /\ InitApp(Builds, {DefaultConfig}, Hardware)
    /\ pc = "export_update"
    /\ NoRenderers
NextExport ==
    \/ ExportUpdate(0..ExportJitter)
    \/ ExportSleep(0..ExportJitter \union {EXPORT_SLEEP})
    \/ ExportCollect
SpecExport == InitExport /\ [][NextExport]_vars

\* the meter alone: any width, either method called on any u8
Meters == {MeterRenderer_new(w) : w \in 0..MaxMeterWidth}
Bytes == 0..255
InitMeter ==
    /\ InitApp({"src"}, {DefaultConfig}, {<<FALSE, FALSE>>})
    /\ pc = "check"
    /\ renderer = NoRenderer
    /\ meter \in Meters
MeterRender == Meter(Bytes)
MeterRenderSegmented == MeterSegmented(Bytes)
NextMeter == MeterRender \/ MeterRenderSegmented
SpecMeter == InitMeter /\ [][NextMeter]_vars

----------------------------------------------------------------------------
(* Properties *)

\* the pre-seeded channel histories, as the deques the monitors hold
Histories ==
    {cpu_monitor.history[c] : c \in 1..Len(cpu_monitor.history)}
        \cup {memory_monitor.mem_history, memory_monitor.swap_history,
              network_monitor.rx_history, network_monitor.tx_history}

\* C1: every pre-seeded channel history (CPU per core, memory, swap, network
\* rx, network tx) has exactly HISTORY_SIZE elements after construction and
\* after any number of updates.
C1_RingInvariant ==
    /\ Len(cpu_monitor.history) = NumCores
    /\ \A h \in Histories : Len(h) = HISTORY_SIZE

\* C1 witness: the monitors have been updated more often than a history is long
C1_Witness ==
    /\ fire_count["fast"] > HISTORY_SIZE
    /\ Len(network_monitor.rx_history) = HISTORY_SIZE

\* the last HISTORY_SIZE elements of HISTORY_SIZE zeros followed by log
LastOfZerosThen(log) ==
    LET all == [i \in 1..HISTORY_SIZE |-> 0] \o log
    IN  SubSeq(all, Len(all) - HISTORY_SIZE + 1, Len(all))

\* C2: the snapshot handed to the UI is, oldest first, the last HISTORY_SIZE
\* elements of the fill zeros followed by the samples pushed so far, for every
\* channel: the newest samples are kept in order and the oldest are dropped.
C2_Fifo ==
    /\ \A c \in 1..NumCores :
        get_all_cpu_data(cpu_monitor)[c] = LastOfZerosThen(pushed.cpu[c])
    /\ get_memory_data(memory_monitor) = LastOfZerosThen(pushed.mem)
    /\ get_swap_data(memory_monitor) = LastOfZerosThen(pushed.swap)
    /\ get_network_data(network_monitor)[1] = LastOfZerosThen(pushed.rx)
    /\ get_network_data(network_monitor)[2] = LastOfZerosThen(pushed.tx)

\* C2 witness: the samples 1, 2, ..., HISTORY_SIZE + 1 were pushed into the rx
\* history, the first one has been dropped and the snapshot is 2 .. HISTORY_SIZE + 1
C2_Witness ==
    /\ pushed.rx = [i \in 1..(HISTORY_SIZE + 1) |-> i]
    /\ get_network_data(network_monitor)[1] = [i \in 1..HISTORY_SIZE |-> i + 1]

(* The scheduler.  A tick is one call of App::update, the step from pc =    *)
(* "update" to pc = "draw"; the clock reading of the tick is now'.           *)

Tick == pc = "update" /\ pc' = "draw"

\* the categories whose monitors the tick invoked
Fired == FiredBy(calls')

\* now - last_fired(c) >= cadence(c), last_fired(c) being the time c itself
\* last fired, or the construction of the App if it never has
DueAt(t, c) == t - last_fired[c] >= Cadence(config, c)

\* the App field the due test of category c reads
StampOf(c) ==
    IF build = "src" THEN last_update
    ELSE CASE c = "fast"    -> last_update
           [] c = "disk"    -> last_disk_update
           [] c = "process" -> last_process_update

\* C3: in every tick made while not paused, a category fires if and only if
\* now - last_fired(category) >= cadence(category).
C3_DueRule ==
    [][(Tick /\ ~paused) =>
        \A c \in Categories : (c \in Fired) <=> DueAt(now', c)]_vars

\* C3 holds of dev/bench/src/ui.rs, and of the fast group in both versions
C3_DueRuleBench ==
    [][(Tick /\ ~paused) =>
        \A c \in Categories :
            (build = "bench" \/ c = "fast") => ((c \in Fired) <=> DueAt(now', c))]_vars

\* C4: a category that fires in a tick has its timestamp set to the clock
\* reading of that tick; a category that does not fire keeps its timestamp.
C4_StampIsNow ==
    [][(Tick /\ ~paused) =>
        \A c \in Categories :
            /\ (c \in Fired) => StampOf(c)' = now'
            /\ (c \notin Fired) => StampOf(c)' = StampOf(c)]_vars

\* C4 holds of dev/bench/src/ui.rs, and of the fast group in both versions
C4_StampIsNowBench ==
    [][(Tick /\ ~paused) =>
        \A c \in Categories :
            (build = "bench" \/ c = "fast") =>
                /\ (c \in Fired) => StampOf(c)' = now'
                /\ (c \notin Fired) => StampOf(c)' = StampOf(c)]_vars

\* a sequence in which nothing occurs twice
NoRepeat(cs) == \A i, j \in 1..Len(cs) : cs[i] = cs[j] => i = j

\* the ticks of the drift example and, for each of them, whether the fast
\* group fires in it, the number of its fires so far and last_update after it
DriftTicks == <<0, 900, 1100, 2200>>
DriftFired == <<FALSE, FALSE, TRUE, TRUE>>
DriftFires == <<0, 0, 1, 2>>
DriftStamp == <<0, 0, 1100, 2200>>

\* C5: no monitor is invoked twice in a tick, however long ago it last fired,
\* and no category has fired more often than there were ticks; with the fast
\* cadence 1000 and ticks at 0, 900, 1100, 2200 the fast group fires at 1100
\* and at 2200 and at no other tick.
C5_NoCatchUp ==
    /\ NoRepeat(calls)
    /\ \A c \in Categories : fire_count[c] <= Len(tick_log)
    /\ \A n \in 1..Len(DriftTicks) :
        (cpu_refresh_duration(config) = default_cpu_refresh
            /\ tick_log = SubSeq(DriftTicks, 1, n))
        => /\ fire_count["fast"] = DriftFires[n]
           /\ last_update = DriftStamp[n]
           /\ ("fast" \in FiredBy(calls)) <=> DriftFired[n]

\* C5 witness: the four ticks of the example have happened, the last one more
\* than two cadences after the construction, and the fast group fired twice
C5_Witness ==
    /\ tick_log = DriftTicks
    /\ cpu_refresh_duration(config) = default_cpu_refresh
    /\ fire_count["fast"] = 2
    /\ now >= 2 * cpu_refresh_duration(config)

\* C6: a call of App::update made while paused invokes no monitor and leaves
\* every timestamp and every history as it was; and the paused flag changes
\* only in a handle_input that read the Space key.
C6_Paused ==
    [][/\ (Tick /\ paused) =>
            /\ calls' = <<>>
            /\ UNCHANGED <<last_update, last_disk_update, last_process_update>>
            /\ UNCHANGED <<cpu_monitor, memory_monitor, network_monitor>>
       /\ (paused' # paused) => (pc = "input" /\ key' = "space")]_vars

\* C6 witness: App::update has just returned at the paused test, at a time when
\* the fast group would have been due
C6_Witness ==
    /\ paused
    /\ pc = "draw"
    /\ duration_since(now, last_update) >= cpu_refresh_duration(config)
    /\ calls = <<>>

\* C7: in the first tick after the pause is lifted no monitor is invoked twice
\* and each category fires exactly when the time since its last fire, the
\* pause included, is at least its cadence.
C7_Resume ==
    [][(Tick /\ resumed) =>
        /\ NoRepeat(calls')
        /\ \A c \in Categories : (c \in Fired) <=> DueAt(now', c)]_vars

\* C7 holds of dev/bench/src/ui.rs, and of the fast group in both versions
C7_ResumeBench ==
    [][(Tick /\ resumed) =>
        /\ NoRepeat(calls')
        /\ \A c \in Categories :
            (build = "bench" \/ c = "fast") => ((c \in Fired) <=> DueAt(now', c))]_vars

\* C8: a category that fires does not change the timestamp of a category that
\* does not; and in a tick in which the fast group does not fire, the disk and
\* the process category are still tested, each firing exactly when it is due.
C8_Independent ==
    [][(Tick /\ ~paused) =>
        /\ \A c, d \in Categories :
            (c \in Fired /\ d \notin Fired) => StampOf(d)' = StampOf(d)
        /\ ("fast" \notin Fired) =>
            \A c \in {"disk", "process"} : (c \in Fired) <=> DueAt(now', c)]_vars

\* C8 holds of dev/bench/src/ui.rs
C8_IndependentBench ==
    [][(Tick /\ ~paused /\ build = "bench") =>
        /\ \A c, d \in Categories :
            (c \in Fired /\ d \notin Fired) => StampOf(d)' = StampOf(d)
        /\ ("fast" \notin Fired) =>
            \A c \in {"disk", "process"} : (c \in Fired) <=> DueAt(now', c)]_vars

\* the order of the monitor updates in App::update
UpdateOrder ==
    <<"cpu", "memory", "network", "ping", "temp", "system", "battery", "diskio",
      "gpu", "npu", "disk", "process">>

Rank(m) == CHOOSE i \in 1..Len(UpdateOrder) : UpdateOrder[i] = m

\* C9: the monitor updates of a tick are invoked in the order cpu, memory,
\* network, ping, temp, system, battery, diskio, gpu, npu, disk, process; the
\* GPU and the NPU only if enabled.
C9_FixedOrder ==
    /\ \A i \in 1..Len(calls) : calls[i] \in Range(UpdateOrder)
    /\ \A i, j \in 1..Len(calls) : i < j => Rank(calls[i]) < Rank(calls[j])
    /\ "gpu" \in Range(calls) => gpu_enabled
    /\ "npu" \in Range(calls) => npu_enabled

\* C9 witness: a tick that invoked all twelve updates
C9_Witness == calls = UpdateOrder

\* C10: a category fires only when at least its cadence has passed since its
\* previous fire (since the construction of the App for its first fire).
C10_MinInterval ==
    [][Tick =>
        \A c \in Fired : now' - last_fired[c] >= Cadence(config, c)]_vars

\* C10 witness: the fast group has just fired for the second time, the disk
\* category for the first time, and the Space key has been read before
C10_Witness ==
    /\ pc = "draw"
    /\ "fast" \in FiredBy(calls)
    /\ fire_count["fast"] = 2
    /\ "disk" \in FiredBy(calls)
    /\ key = "space"

----------------------------------------------------------------------------
(* Failing GPU updates *)

\* card i gets no sample from output out
Affected(out, i) == out.result # "success" \/ ~Parsed(out, i)

\* C11: when a due GPU update fails (nvidia-smi does not start, exits with a
\* failure status, or prints a line of fewer than 9 fields), the utilization
\* and memory histories of every affected card are after App::update exactly
\* what they were before it, and App::update returns to the loop, which goes
\* on to draw.
C11_FailedGpuUpdate ==
    [][pc = "update" /\ "gpu" \in Range(calls') =>
          /\ pc' = "draw"
          /\ \A i \in 1..Len(gpu_monitor.utilization_history) :
                Affected(gpu_output', i) =>
                   /\ gpu_monitor'.utilization_history[i]
                         = gpu_monitor.utilization_history[i]
                   /\ gpu_monitor'.memory_history[i]
                         = gpu_monitor.memory_history[i]]_vars

\* C11 witness: an update whose output had a short line for card 1 only has
\* just run, after one that sampled both cards
C11_Witness ==
    /\ pc = "draw"
    /\ last_failed = now
    /\ gpu_output.result = "success"
    /\ Affected(gpu_output, 1) /\ ~Affected(gpu_output, 2)
    /\ Len(gpu_monitor.utilization_history[1]) = 1
    /\ Len(gpu_monitor.utilization_history[2]) = 2

\* C12: a tick whose GPU update fails still stamps the fast category with the
\* tick time, and no tick invokes the GPU update again before a full fast
\* cadence has passed since the failed one.
C12_StampedOnFailure ==
    [][Tick /\ "gpu" \in Range(calls') =>
          /\ GpuFailed(gpu_output') => last_update' = now'
          /\ last_failed >= 0 =>
                now' - last_failed >= cpu_refresh_duration(config)]_vars

\* C12 witness: a tick less than a cadence after a failed GPU update has
\* invoked no monitor
C12_Witness ==
    /\ pc = "draw"
    /\ last_failed >= 0
    /\ now > last_failed
    /\ now - last_failed < cpu_refresh_duration(config)
    /\ calls = <<>>

\* the temperature histories the monitor holds
TempHistories ==
    IF build = "src" THEN {temp_monitor.history}
    ELSE {temp_monitor.history[s] : s \in DOMAIN temp_monitor.history}

GpuHistories ==
    {gpu_monitor.utilization_history[i] :
        i \in 1..Len(gpu_monitor.utilization_history)}
    \cup {gpu_monitor.memory_history[i] :
        i \in 1..Len(gpu_monitor.memory_history)}

\* C13: every GPU utilization and memory history has GPU_HISTORY_SIZE elements
\* and every temperature history TEMP_HISTORY_SIZE elements, from
\* construction onward.
C13_SeededFull ==
    /\ \A h \in GpuHistories : Len(h) = GPU_HISTORY_SIZE
    /\ \A h \in TempHistories : Len(h) = TEMP_HISTORY_SIZE

\* what the code keeps: these histories start empty, grow by one element per
\* sample and never exceed their capacity
C13_AtMostCapacity ==
    /\ \A h \in GpuHistories : Len(h) <= GPU_HISTORY_SIZE
    /\ \A h \in TempHistories : Len(h) <= TEMP_HISTORY_SIZE
    /\ fire_count["fast"] < GPU_HISTORY_SIZE =>
          \A h \in GpuHistories : Len(h) = fire_count["fast"]

----------------------------------------------------------------------------
(* The graph renderer *)

CeilHalf(n) == (n + 1) \div 2

\* the last n elements of data, n <= Len(data)
LastSamples(data, n) == SubSeq(data, Len(data) - n + 1, Len(data))

Percent(v) == clamp(v, Rat(0, 1), Rat(100, 1))

\* C14: render returns height rows of ceil(n/2) glyphs each, n being the
\* smaller of len(data) and 2*width, so at most width glyphs; glyph k of a row
\* is the glyph of the k-th consecutive pair of the retained samples, oldest
\* pair first, and a last sample without partner is drawn as the pair (v, v).
C14_Shape ==
    rendered.called =>
        LET n == min(Len(rendered.data), 2 * renderer.width)
            kept == LastSamples(rendered.data, n)
            symbols == get_symbols(renderer.symbol, renderer.inverted)
        IN  /\ Len(rendered.output) = renderer.height
            /\ \A h \in 1..renderer.height :
                  /\ Len(rendered.output[h]) = CeilHalf(n)
                  /\ Len(rendered.output[h]) <= renderer.width
                  /\ \A k \in 1..CeilHalf(n) :
                        LET c == rendered.cells[h][k]
                        IN  /\ c.v1 = Percent(kept[2 * k - 1])
                            /\ c.v2 = Percent(IF 2 * k <= n THEN kept[2 * k]
                                                            ELSE kept[2 * k - 1])
                            /\ rendered.output[h][k]
                                  = symbols[c.idx1 * 5 + c.idx2 + 1]

\* C14 witness: three samples drawn two rows high in a graph wide enough: two
\* glyphs per row, the second one from the last sample taken twice
C14_Witness ==
    /\ rendered.called
    /\ renderer.width = 2 /\ renderer.height = 2
    /\ rendered.data = <<Rat(0, 1), Rat(99, 1), Rat(50, 1)>>
    /\ Len(rendered.output[1]) = 2
    /\ rendered.cells[1][2].v1 = Rat(50, 1)
    /\ rendered.cells[1][2].v2 = Rat(50, 1)

\* C15: when data has more than 2*width samples, render(data) is
\* render(the last 2*width samples of data); ten samples of 42 in a graph of
\* width 3 give 3 glyphs per row.
C15_Windowing ==
    rendered.called /\ Len(rendered.data) > 2 * renderer.width =>
        /\ rendered.output
              = render(renderer, LastSamples(rendered.data, 2 * renderer.width))
        /\ (renderer.width = 3 /\ rendered.data = [i \in 1..10 |-> Rat(42, 1)]) =>
              \A h \in 1..renderer.height : Len(rendered.output[h]) = 3

\* C15 witness: ten samples of 42 drawn in a graph of width 3
C15_Witness ==
    /\ rendered.called
    /\ renderer.width = 3 /\ renderer.height = 2
    /\ rendered.data = [i \in 1..10 |-> Rat(42, 1)]
    /\ Len(rendered.output[2]) = 3
    /\ rendered.cells[2][1].i = 4

\* the integer nearest to x >= 0, the upper one of two
Nearest(x) ==
    CHOOSE n \in 0..(x[1] \div x[2] + 1) :
        /\ (2 * n - 1) * x[2] <= 2 * x[1]
        /\ 2 * x[1] < (2 * n + 1) * x[2]

\* the quantization index of sample v in row h (from 0) of height rows
BandIndex(v, h, height) ==
    LET value == Percent(v)
        high == IF height = 1 THEN Rat(100, 1) ELSE Rat(100 * (height - h), height)
        low == IF height = 1 THEN Rat(0, 1)
                             ELSE Rat(100 * (height - h - 1), height)
        min_index == IF Less(Rat(0, 1), value) THEN 1 ELSE 0
        scaled == Mul(Div(Sub(value, low), Sub(high, low)), Rat(4, 1))
    IN  IF LessEq(high, value) THEN 4
        ELSE IF LessEq(value, low) THEN min_index
        ELSE IF Nearest(scaled) < min_index THEN min_index
        ELSE IF Nearest(scaled) > 4 THEN 4
        ELSE Nearest(scaled)

\* the samples of row h (from 1) of the last rendering, each with its index
RowIndices(h) ==
    UNION {{<<rendered.cells[h][k].v1, rendered.cells[h][k].idx1>>,
            <<rendered.cells[h][k].v2, rendered.cells[h][k].idx2>>} :
           k \in 1..Len(rendered.cells[h])}

C17_Monotone ==
    rendered.called =>
        \A h \in 1..renderer.height : \A p, q \in RowIndices(h) :
            LessEq(p[1], q[1]) => p[2] <= q[2]

\* C17 witness: 50 and 51 in the band [50, 100]: 50 is at the lower edge of
\* the band, 51 inside it, and both get index 1
C17_Witness ==
    /\ rendered.called
    /\ renderer.height = 2 /\ renderer.width = 1
    /\ rendered.data = <<Rat(50, 1), Rat(51, 1)>>
    /\ rendered.cells[1][1].idx1 = 1
    /\ rendered.cells[1][1].idx2 = 1
    /\ rendered.cells[2][1].idx1 = 4

\* the blank glyph, entry 0 of every table
Blank == 32

\* C18: in every row a sample above 0 has an index of at least 1 and a sample
\* that is 0 (after clamping) has index 0; the glyph of a pair is the blank
\* glyph only when both samples of the pair are 0.
C18_NoZero ==
    rendered.called =>
        \A h \in 1..renderer.height :
            /\ \A p \in RowIndices(h) :
                  IF Less(Rat(0, 1), p[1]) THEN p[2] >= 1 ELSE p[2] = 0
            /\ \A k \in 1..Len(rendered.cells[h]) :
                  rendered.output[h][k] = Blank =>
                     /\ ~Less(Rat(0, 1), rendered.cells[h][k].v1)
                     /\ ~Less(Rat(0, 1), rendered.cells[h][k].v2)

\* C18 witness: 0.5 next to 0 in the top row of two: the row is far above
\* 0.5, still its index is 1 and the glyph is not blank
C18_Witness ==
    /\ rendered.called
    /\ renderer.height = 2 /\ renderer.width = 1
    /\ rendered.data = <<Rat(1, 2), Rat(0, 1)>>
    /\ rendered.cells[1][1].idx1 = 1
    /\ rendered.cells[1][1].idx2 = 0
    /\ rendered.output[1][1] # Blank

\* C19: both indices of every pair are in 0..4 and the key idx1*5 + idx2 is in
\* 0..24, inside the table chosen by (family, inverted); each of the six
\* tables has 25 entries.
C19_InTable ==
    /\ \A s \in GraphSymbols, inv \in BOOLEAN : Len(get_symbols(s, inv)) = 25
    /\ rendered.called =>
          \A h \in 1..renderer.height : \A k \in 1..Len(rendered.cells[h]) :
              LET c == rendered.cells[h][k]
              IN  /\ c.idx1 \in 0..4
                  /\ c.idx2 \in 0..4
                  /\ c.idx1 * 5 + c.idx2 \in 0..24
                  /\ c.symbol_idx = c.idx1 * 5 + c.idx2
                  /\ c.symbol_idx + 1
                        \in DOMAIN get_symbols(renderer.symbol, renderer.inverted)

\* C19 witness: a pair of two full samples takes the last entry of a table
C19_Witness ==
    /\ rendered.called
    /\ renderer.symbol = "Tty" /\ renderer.inverted
    /\ renderer.height = 3 /\ renderer.width = 1
    /\ rendered.data = <<Rat(125, 1), Rat(100, 1)>>
    /\ rendered.cells[1][1].symbol_idx = 24
    /\ rendered.output[1][1] = TTY_DOWN[25]

\* the rows of a rendering are all empty
EmptyRows(rows) == \A h \in 1..Len(rows) : rows[h] = <<>>

\* C21: render fails for no renderer and no series; it returns height rows,
\* all of them empty when data is empty and when width is 0, and no row at
\* all when height is 0.
C21_Total ==
    rendered.called =>
        /\ ~rendered.panicked
        /\ Len(rendered.output) = renderer.height
        /\ rendered.data = <<>> => EmptyRows(rendered.output)
        /\ renderer.width = 0 => EmptyRows(rendered.output)
        /\ renderer.height = 0 => rendered.output = <<>>

\* C21 witness: three samples given to a renderer of width 0 and height 2
C21_Witness ==
    /\ rendered.called
    /\ renderer.width = 0 /\ renderer.height = 2
    /\ Len(rendered.data) = 3
    /\ rendered.output = << <<>>, <<>> >>

----------------------------------------------------------------------------
(* The meter renderer *)

\* floor(w * min(v, 100) / 100)
Filled(w, v) == (w * (IF v > 100 THEN 100 ELSE v)) \div 100

\* n full glyphs followed by m empty ones
Bar(n, m) == [i \in 1..(n + m) |-> IF i <= n THEN METER ELSE EMPTY_SEGMENT]

\* C22 as stated: the meter renderer, render as well as render_segmented,
\* emits filled = floor(w * min(v,100) / 100) full glyphs followed by
\* w - filled empty glyphs, w glyphs in all.
C22_MeterPadded ==
    metered.called # "none" =>
        /\ metered.output
              = Bar(Filled(meter.width, metered.value),
                    meter.width - Filled(meter.width, metered.value))
        /\ Len(metered.output) = meter.width

\* C22, amended: with filled = floor(w * min(v,100) / 100), render emits
\* exactly filled full glyphs and nothing else (width 10 and value 50 give 5
\* full glyphs); render_segmented emits filled full glyphs followed by
\* w - filled empty glyphs, w glyphs in all.
C22_Meter ==
    LET filled == Filled(meter.width, metered.value)
    IN  /\ metered.called = "render" =>
              /\ metered.output = Bar(filled, 0)
              /\ (meter.width = 10 /\ metered.value = 50) =>
                    metered.output = <<METER, METER, METER, METER, METER>>
        /\ metered.called = "render_segmented" =>
              /\ metered.output = Bar(filled, meter.width - filled)
              /\ Len(metered.output) = meter.width

\* C22 witness: render of value 50 at width 10 has given 5 glyphs
C22_Witness ==
    /\ metered.called = "render"
    /\ meter.width = 10
    /\ metered.value = 50
    /\ Len(metered.output) = 5

----------------------------------------------------------------------------
(* The main loop *)

Iteration == <<"check", "update", "draw", "input">>

\* C23: the steps of every iteration come in the order update, draw, input
\* after the tests at the head of the loop: a draw has the update of its
\* iteration before it and an input poll has the draw of its iteration
\* before it.
C23_LoopOrder ==
    /\ \E n \in 0..Len(Iteration) : trace = SubSeq(Iteration, 1, n)
    /\ pc = "update" => trace = <<"check">>
    /\ pc = "draw" => trace = <<"check", "update">>
    /\ pc = "input" => trace = <<"check", "update", "draw">>

\* C23 witness: an iteration that fired the fast category and read a key has
\* been completed
C23_Witness ==
    /\ pc = "check"
    /\ trace = Iteration
    /\ "cpu" \in Range(calls)
    /\ key = "space"

\* C24: the handler changes nothing but the flag, which it sets to false;
\* the flag is acted upon at the head of the loop only: with the flag false
\* the head leaves the loop, and an update, a draw or an input poll takes its
\* step all the same; the loop is left from its head or from the input poll
\* only, and nothing happens after it is left.
C24_Cooperative ==
    [][/\ running' # running =>
             running' = FALSE /\ UNCHANGED <<state_vars, pc, trace>>
       /\ (pc = "check" /\ ~running /\ pc' # pc) => pc' = "exit"
       /\ (pc \in {"update", "draw", "input"} /\ trace' # trace) =>
             trace' = Append(trace, pc)
       /\ (pc' = "exit" /\ pc # "exit") => pc \in {"check", "input"}
       /\ pc \in {"exit", "error", "panic"} =>
             UNCHANGED <<state_vars, pc, trace>>]_vars

\* C24 witness: an interrupt came while the loop was about to update; the
\* iteration was completed and the loop left at the head of the next one
C24_Witness ==
    /\ pc = "exit"
    /\ ~running
    /\ signal_at = "update"
    /\ trace = <<"check">>
    /\ key = "none"
    /\ "cpu" \in Range(calls)

----------------------------------------------------------------------------
(* The process list and the kill dialog *)

\* a step of handle_input
InputStep == pc = "input" /\ trace' # trace

\* C25: a step that is no App::update (a draw, a key, an event of the mouse,
\* a poll that timed out, the head of the loop) leaves every history, every
\* timestamp of a category and the record of what was pushed unchanged.
C25_OnlyUpdateMutates ==
    [][pc # "update" =>
          UNCHANGED <<cpu_monitor, memory_monitor, network_monitor, gpu_monitor,
                      temp_monitor, last_update, last_disk_update,
                      last_process_update, last_fired, pushed>>]_vars

\* C25 witness: the fast category has fired, and the mouse has then scrolled
\* the list and a draw followed
C25_Witness ==
    /\ pc = "input"
    /\ key = "scroll_down"
    /\ process_scroll = 1
    /\ fire_count["fast"] = 1
    /\ Len(pushed.cpu[1]) = 1

\* C26: the dialog opens only by the key k while a process is selected; with
\* the dialog open a key closes it, does not quit and changes neither pause,
\* help, sort order, scroll position, filter nor page, and changes the
\* selection only if it is y or Y; handle_input sends a kill only for y or Y
\* with the dialog open.
C26_KillProtocol ==
    [][/\ (~show_kill_confirm /\ show_kill_confirm') =>
             InputStep /\ key' = "k" /\ process_selected # <<>>
       /\ (InputStep /\ show_kill_confirm /\ key' \notin {"none"} \union MouseEvents) =>
             /\ ~show_kill_confirm'
             /\ pc' = run_app_next("input")
             /\ UNCHANGED <<paused, show_help, process_monitor, process_scroll,
                            process_filter, current_page>>
             /\ key' \notin {"y", "Y"} => UNCHANGED process_selected
       /\ (InputStep /\ kill_sent' # <<>>) =>
             show_kill_confirm /\ key' \in {"y", "Y"}
       /\ ~InputStep => UNCHANGED kill_sent]_vars

\* C26 witness: a kill was confirmed with Y and sent
C26_Witness ==
    /\ kill_sent # <<>>
    /\ key = "Y"
    /\ ~show_kill_confirm
    /\ process_selected = <<>>

\* C28: at every draw of the process list the scroll position is at most the
\* length of the list displayed.  Violated: the keys bound it by the length
\* of the unfiltered list less VISIBLE, and an update may shrink the list.
C28_ScrollInRange ==
    (pc = "draw" /\ current_page \in {"Overview", "Processes"}) =>
        process_scroll <= draw_processes.total

\* C29: a kill goes to the pid that was at the selected index when it was
\* selected.  Violated: the index is resolved in the list as sorted when
\* the kill is confirmed.
C29_KillsSelected == kill_sent # <<>> => kill_sent[1] = selected_pid

----------------------------------------------------------------------------
(* Starvation *)

\* an App::update has just run
Ticked == pc = "draw"

\* C27: if the loop ticks for ever, every category fires for ever again.
\* Violated by src/src/ui.rs with ticks 50 ms apart: the fast group fires
\* every 1000 ms and the tests of disk and process, inside its block, read
\* the 1000 ms since it fired last.
C27_NoStarvation ==
    \A c \in Categories : []<>Ticked => []<>(Ticked /\ c \in FiredBy(calls))

\* C27, for dev/bench/src/ui.rs and for the fast group of src/src/ui.rs
C27_NoStarvationOwn ==
    \A c \in Categories :
        (build = "bench" \/ c = "fast") =>
            ([]<>Ticked => []<>(Ticked /\ c \in FiredBy(calls)))

----------------------------------------------------------------------------
(* Export mode *)

\* C30: when the metrics are collected, a monitor update has fired since the
\* App was built.  Violated: both calls of App::update come less than the
\* 1000 ms of the fast cadence after App::new unless the sleep overshoots by
\* 500 ms.
C30_ExportFires ==
    pc = "export_done" => \E c \in Categories : fire_count[c] >= 1

\* what holds instead: a category has fired only if the second update came
\* a cadence of the fast group or more after App::new
C30_ExportFiresLate ==
    pc = "export_done" =>
        ((\E c \in Categories : fire_count[c] >= 1) <=> now >= default_cpu_refresh)

====
